---- MODULE Spec2Model ----
(***************************************************************************)
(* State-machine model of the DisasterWarningSystem React component        *)
(* (GEO-RISK AI map dashboard): hierarchical navigation, the district      *)
(* risk-cell fetch, the road-alert synthesis effect and the map view.      *)
(*                                                                         *)
(* Coordinates are integers in units of 1e-4 degree (24.8167 -> 248167).   *)
(* A JavaScript string on which the code computes (a district name) is a   *)
(* sequence of one-character strings; the empty string is << >>.           *)
(***************************************************************************)
EXTENDS Integers, Sequences, FiniteSets, TLC

VARIABLES
    selectedCountry,    \* useState('')           "" | "India"
    selectedState,      \* useState('')           "" | "Manipur"
    selectedDistrict,   \* useState('')           sequence of characters
    riskCells,          \* useState([])           sequence of transformed cells
    roadAlerts,         \* useState([])           sequence of alerts
    calamityMode,       \* useState(LANDSLIDE)
    lastUpdated,        \* useState(null)         0 is null, else a timestamp
    loading,            \* useState(false)
    error,              \* useState(null)
    mapCenter,          \* useState(MAP_VIEWS.world.center)
    mapZoom,            \* useState(MAP_VIEWS.world.zoom)
    selectedRoadAlert,  \* useState(null)
    countryDeps,        \* dependency array of the country effect at its last run
    stateDeps,          \* dependency array of the state effect at its last run
    alertDeps,          \* dependency array of the alerts effect at its last run
    inflight,           \* fetchDisasterData calls suspended at an await
    issued,             \* number of GET requests issued so far
    lastEvent,          \* history: the last event the component handled
    latest,             \* history: outcome of the most recently issued fetch
    probe               \* a call of one of the component's pure functions

hooks == <<selectedCountry, selectedState, selectedDistrict, riskCells, roadAlerts,
           calamityMode, lastUpdated, loading, error, mapCenter, mapZoom,
           selectedRoadAlert>>

vars == <<selectedCountry, selectedState, selectedDistrict, riskCells, roadAlerts,
          calamityMode, lastUpdated, loading, error, mapCenter, mapZoom,
          selectedRoadAlert, countryDeps, stateDeps, alertDeps, inflight, issued,
          lastEvent, latest, probe>>

\* the variables of the component, without the function-call probe
component == <<selectedCountry, selectedState, selectedDistrict, riskCells, roadAlerts,
               calamityMode, lastUpdated, loading, error, mapCenter, mapZoom,
               selectedRoadAlert, countryDeps, stateDeps, alertDeps, inflight, issued,
               lastEvent, latest>>

----------------------------------------------------------------------------
(* Bounds of the model *)

\* GET requests issued in one behaviour
MaxFetches == 2

\* records in one response payload
MaxRecords == 1

\* length of the lists the pure functions are called with
MaxCells == 2

----------------------------------------------------------------------------
(* System configuration *)

MAP_VIEWS ==
    [world   |-> [center |-> <<200000, 0>>,      zoom |-> 2],
     india   |-> [center |-> <<225000, 790000>>, zoom |-> 5],
     manipur |-> [center |-> <<248000, 939500>>, zoom |-> 9]]

Bishnupur == <<"B", "i", "s", "h", "n", "u", "p", "u", "r">>
Chandel == <<"C", "h", "a", "n", "d", "e", "l">>
Churachandpur == <<"C", "h", "u", "r", "a", "c", "h", "a", "n", "d", "p", "u", "r">>
ImphalEast == <<"I", "m", "p", "h", "a", "l", "E", "a", "s", "t">>
ImphalWest == <<"I", "m", "p", "h", "a", "l", "W", "e", "s", "t">>
Jiribam == <<"J", "i", "r", "i", "b", "a", "m">>
Kakching == <<"K", "a", "k", "c", "h", "i", "n", "g">>
Kamjong == <<"K", "a", "m", "j", "o", "n", "g">>
Kangpokpi == <<"K", "a", "n", "g", "p", "o", "k", "p", "i">>
Noney == <<"N", "o", "n", "e", "y">>
Pherzawl == <<"P", "h", "e", "r", "z", "a", "w", "l">>
Senapati == <<"S", "e", "n", "a", "p", "a", "t", "i">>
Tamenglong == <<"T", "a", "m", "e", "n", "g", "l", "o", "n", "g">>
Tengnoupal == <<"T", "e", "n", "g", "n", "o", "u", "p", "a", "l">>
Thoubal == <<"T", "h", "o", "u", "b", "a", "l">>
Ukhrul == <<"U", "k", "h", "r", "u", "l">>

MANIPUR_DISTRICTS ==
    Bishnupur :> [center |-> <<246167, 937667>>, zoom |-> 11]
 @@ Chandel :> [center |-> <<243167, 940167>>, zoom |-> 10]
 @@ Churachandpur :> [center |-> <<243333, 936667>>, zoom |-> 10]
 @@ ImphalEast :> [center |-> <<247667, 939667>>, zoom |-> 11]
 @@ ImphalWest :> [center |-> <<248167, 939167>>, zoom |-> 11]
 @@ Jiribam :> [center |-> <<248083, 931167>>, zoom |-> 11]
 @@ Kakching :> [center |-> <<244833, 939833>>, zoom |-> 11]
 @@ Kamjong :> [center |-> <<248333, 944167>>, zoom |-> 10]
 @@ Kangpokpi :> [center |-> <<252167, 939833>>, zoom |-> 10]
 @@ Noney :> [center |-> <<249500, 936833>>, zoom |-> 10]
 @@ Pherzawl :> [center |-> <<241667, 931167>>, zoom |-> 10]
 @@ Senapati :> [center |-> <<252667, 940167>>, zoom |-> 10]
 @@ Tamenglong :> [center |-> <<249833, 934833>>, zoom |-> 10]
 @@ Tengnoupal :> [center |-> <<243167, 941333>>, zoom |-> 10]
 @@ Thoubal :> [center |-> <<246333, 940000>>, zoom |-> 11]
 @@ Ukhrul :> [center |-> <<250500, 943667>>, zoom |-> 10]

CALAMITY_TYPES == [LANDSLIDE |-> "landslide", FLOOD |-> "flood"]

----------------------------------------------------------------------------
(* Values *)

\* JavaScript null in the error hook, and the messages setError receives
NoError == [message |-> "null", status |-> 0]

ApiError(status) ==
    [message |-> "Failed to fetch prediction data: API error: ", status |-> status]

TransportError ==
    [message |-> "Failed to fetch prediction data: Failed to fetch", status |-> 0]

\* the TypeError of rawCells.forEach when rawCells is not an array
NotIterableError ==
    [message |-> "Failed to fetch prediction data: rawCells.forEach is not a function",
     status |-> 0]

\* the TypeError of data.status when data is null
NullBodyError ==
    [message |-> "Failed to fetch prediction data: Cannot read properties of null (reading 'status')",
     status |-> 0]

\* JavaScript null in the selectedRoadAlert hook
NoAlert == [id |-> "null"]

\* an absent sub-record of a raw payload record
Absent == [absent |-> TRUE]

Bounds(minLat, minLon, maxLat, maxLon) ==
    [minLat |-> minLat, minLon |-> minLon, maxLat |-> maxLat, maxLon |-> maxLon]

SubRecord(calType, risk) ==
    [cal_type |-> calType, risk_percentage |-> risk, updated_at |-> 1]

\* The raw records the modelled endpoint answers with: the one-cell record of
\* the Imphal West scenario (central band, landslide 72) and a southern record
\* carrying both hazards (flood 45 above the alert threshold, landslide 20 below).
RawRecords ==
    { [bounds |-> Bounds(247800, 939100, 248300, 939600),
       flood |-> Absent,
       landslide |-> SubRecord("landslide", 72)],
      [bounds |-> Bounds(246000, 937000, 246500, 937500),
       flood |-> SubRecord("flood", 45),
       landslide |-> SubRecord("landslide", 20)] }

RECURSIVE SeqsUpTo(_, _)
SeqsUpTo(S, n) ==
    IF n = 0 THEN { << >> }
    ELSE LET shorter == SeqsUpTo(S, n - 1)
         IN shorter \cup { Append(q, x) : q \in shorter, x \in S }

RecordLists == SeqsUpTo(RawRecords, MaxRecords)

\* JSON bodies of a 2xx response: the wrapper object {"status": [...]}, the
\* bare array, an object without a status field, null, and a falsy scalar
\* (0, false or "")
Bodies ==
    { [shape |-> "wrapper", list |-> l] : l \in RecordLists }
        \cup { [shape |-> "bare", list |-> l] : l \in RecordLists }
        \cup { [shape |-> "object", list |-> << >>],
               [shape |-> "null", list |-> << >>],
               [shape |-> "falsy", list |-> << >>] }

NoBody == [shape |-> "none", list |-> << >>]

\* what a request settles with: a 2xx response, a non-2xx response, or a
\* rejected fetch promise
Outcomes ==
    { [kind |-> "ok", status |-> 200, body |-> b] : b \in Bodies }
        \cup { [kind |-> "http", status |-> st, body |-> NoBody] : st \in {404, 500} }
        \cup { [kind |-> "network", status |-> 0, body |-> NoBody] }

\* the districts the model's user picks among the sixteen options
DistrictChoices == { ImphalWest, Bishnupur }

----------------------------------------------------------------------------
(* Pure functions *)

Whitespace == { " ", "\t", "\n", "\r" }

\* mutant of StripWhitespace: the pattern lacks the g flag, so only the first
\* run of whitespace is removed
StripWhitespace_FirstRun(str) ==
    LET spaces == { i \in DOMAIN str : str[i] \in Whitespace }
    IN  IF spaces = { } THEN str
        ELSE LET first == CHOOSE i \in spaces : \A j \in spaces : i <= j
                 after == { i \in DOMAIN str : i > first /\ str[i] \notin Whitespace }
                 next == IF after = { } THEN Len(str) + 1
                         ELSE CHOOSE i \in after : \A j \in after : i <= j
             IN  SubSeq(str, 1, first - 1) \o SubSeq(str, next, Len(str))

\* district.replace(/\s+/g, '')
StripWhitespace(str) == SelectSeq(str, LAMBDA ch : ch \notin Whitespace)

\* what `data.status || data || []` followed by rawCells.forEach does with a
\* body: "null" throws reading data.status; an object without status is truthy,
\* so rawCells is the object itself and forEach is not a function
BodyThrows(data) == data.shape \in {"object", "null"}

\* data.status || data || [] when it yields an array: the status list, the bare
\* array itself, or the [] fallback of a falsy body
RawCells(data) ==
    IF data.shape = "wrapper" THEN data.list
    ELSE IF data.shape = "bare" THEN data.list
    ELSE << >>

\* mutant of ExpandRecord: each push writes the hazard of its branch instead of
\* copying the sub-record's cal_type
ExpandRecord_TagFromKey(cell) ==
    (IF cell.flood # Absent
        THEN << [bounds |-> cell.bounds,
                 cal_type |-> CALAMITY_TYPES.FLOOD,
                 risk_percentage |-> cell.flood.risk_percentage,
                 updated_at |-> cell.flood.updated_at] >>
        ELSE << >>)
    \o
    (IF cell.landslide # Absent
        THEN << [bounds |-> cell.bounds,
                 cal_type |-> CALAMITY_TYPES.LANDSLIDE,
                 risk_percentage |-> cell.landslide.risk_percentage,
                 updated_at |-> cell.landslide.updated_at] >>
        ELSE << >>)

\* mutant of ExpandRecord: the second `if` is an `else if`, so a record with
\* both sub-records yields its flood cell only
ExpandRecord_ElseIf(cell) ==
    IF cell.flood # Absent
        THEN << [bounds |-> cell.bounds,
                 cal_type |-> cell.flood.cal_type,
                 risk_percentage |-> cell.flood.risk_percentage,
                 updated_at |-> cell.flood.updated_at] >>
    ELSE IF cell.landslide # Absent
        THEN << [bounds |-> cell.bounds,
                 cal_type |-> cell.landslide.cal_type,
                 risk_percentage |-> cell.landslide.risk_percentage,
                 updated_at |-> cell.landslide.updated_at] >>
    ELSE << >>

\* the two pushes of one forEach iteration: the flood cell, then the landslide cell
ExpandRecord(cell) ==
    (IF cell.flood # Absent
        THEN << [bounds |-> cell.bounds,
                 cal_type |-> cell.flood.cal_type,
                 risk_percentage |-> cell.flood.risk_percentage,
                 updated_at |-> cell.flood.updated_at] >>
        ELSE << >>)
    \o
    (IF cell.landslide # Absent
        THEN << [bounds |-> cell.bounds,
                 cal_type |-> cell.landslide.cal_type,
                 risk_percentage |-> cell.landslide.risk_percentage,
                 updated_at |-> cell.landslide.updated_at] >>
        ELSE << >>)

\* transformedCells after rawCells.forEach
RECURSIVE ExpandRecords(_)
ExpandRecords(rawCells) ==
    IF rawCells = << >> THEN << >>
    ELSE ExpandRecord(Head(rawCells)) \o ExpandRecords(Tail(rawCells))

\* mutant of FilterByMode: the predicate compares with the LANDSLIDE constant
\* instead of the current mode
FilterByMode_Landslide(cells, mode) ==
    SelectSeq(cells, LAMBDA cell : cell.cal_type = CALAMITY_TYPES.LANDSLIDE)

\* riskCells.filter(cell => cell.cal_type === calamityMode)
FilterByMode(cells, mode) == SelectSeq(cells, LAMBDA cell : cell.cal_type = mode)

\* mutant of MathMax: Math.min(...xs)
MathMax_Min(xs) ==
    CHOOSE m \in { xs[i] : i \in DOMAIN xs } : \A i \in DOMAIN xs : m <= xs[i]

\* Math.max(...xs) of a non-empty sequence
MathMax(xs) ==
    CHOOSE m \in { xs[i] : i \in DOMAIN xs } : \A i \in DOMAIN xs : m >= xs[i]

RiskOf(cells) == [i \in DOMAIN cells |-> cells[i].risk_percentage]

Alert(id, road, cells, message, recommendation) ==
    [id |-> id, road |-> road, severity |-> MathMax(RiskOf(cells)), cells |-> cells,
     message |-> message, recommendation |-> recommendation]

\* mutant of detectRoadIntersections: the central band excludes its upper
\* latitude 24.85
detectRoadIntersections_OpenCentral(cells, calamityType) ==
    LET highRiskCells == SelectSeq(cells, LAMBDA c : c.risk_percentage >= 30)
        northernRisk == SelectSeq(highRiskCells, LAMBDA c : c.bounds.minLat > 248500)
        centralRisk == SelectSeq(highRiskCells,
                           LAMBDA c : c.bounds.minLat >= 247000 /\ c.bounds.minLat < 248500)
        southernRisk == SelectSeq(highRiskCells, LAMBDA c : c.bounds.minLat < 247000)
    IN  IF highRiskCells = << >> THEN << >>
        ELSE IF calamityType = CALAMITY_TYPES.LANDSLIDE THEN
            (IF northernRisk # << >>
                THEN << Alert("nh2-north", "NH-2 (Imphal-Senapati Highway)", northernRisk,
                              "Hill road section may experience landslide blockage",
                              "Avoid travel on hill sections. Use alternative valley routes if available.") >>
                ELSE << >>)
            \o
            (IF centralRisk # << >>
                THEN << Alert("imphal-central", "Imphal City Ring Road", centralRisk,
                              "Slope-adjacent road sections at risk",
                              "Monitor conditions. Debris clearance may be required.") >>
                ELSE << >>)
        ELSE IF calamityType = CALAMITY_TYPES.FLOOD THEN
            (IF centralRisk # << >>
                THEN << Alert("imphal-valley", "Imphal Valley Low-lying Roads", centralRisk,
                              "Low-lying areas may experience flooding",
                              "Seek higher elevation. Avoid crossing flooded sections.") >>
                ELSE << >>)
            \o
            (IF southernRisk # << >>
                THEN << Alert("loktak-roads", "Roads near Loktak Lake", southernRisk,
                              "Waterlogging expected in lakeside areas",
                              "Use elevated bypass routes. Monitor water levels.") >>
                ELSE << >>)
        ELSE << >>

\* mutant of detectRoadIntersections: the threshold filter is > 30 instead of >= 30
detectRoadIntersections_Above30(cells, calamityType) ==
    LET highRiskCells == SelectSeq(cells, LAMBDA c : c.risk_percentage > 30)
        northernRisk == SelectSeq(highRiskCells, LAMBDA c : c.bounds.minLat > 248500)
        centralRisk == SelectSeq(highRiskCells,
                           LAMBDA c : c.bounds.minLat >= 247000 /\ c.bounds.minLat <= 248500)
        southernRisk == SelectSeq(highRiskCells, LAMBDA c : c.bounds.minLat < 247000)
    IN  IF highRiskCells = << >> THEN << >>
        ELSE IF calamityType = CALAMITY_TYPES.LANDSLIDE THEN
            (IF northernRisk # << >>
                THEN << Alert("nh2-north", "NH-2 (Imphal-Senapati Highway)", northernRisk,
                              "Hill road section may experience landslide blockage",
                              "Avoid travel on hill sections. Use alternative valley routes if available.") >>
                ELSE << >>)
            \o
            (IF centralRisk # << >>
                THEN << Alert("imphal-central", "Imphal City Ring Road", centralRisk,
                              "Slope-adjacent road sections at risk",
                              "Monitor conditions. Debris clearance may be required.") >>
                ELSE << >>)
        ELSE IF calamityType = CALAMITY_TYPES.FLOOD THEN
            (IF centralRisk # << >>
                THEN << Alert("imphal-valley", "Imphal Valley Low-lying Roads", centralRisk,
                              "Low-lying areas may experience flooding",
                              "Seek higher elevation. Avoid crossing flooded sections.") >>
                ELSE << >>)
            \o
            (IF southernRisk # << >>
                THEN << Alert("loktak-roads", "Roads near Loktak Lake", southernRisk,
                              "Waterlogging expected in lakeside areas",
                              "Use elevated bypass routes. Monitor water levels.") >>
                ELSE << >>)
        ELSE << >>

detectRoadIntersections(cells, calamityType) ==
    LET highRiskCells == SelectSeq(cells, LAMBDA c : c.risk_percentage >= 30)
        northernRisk == SelectSeq(highRiskCells, LAMBDA c : c.bounds.minLat > 248500)
        centralRisk == SelectSeq(highRiskCells,
                           LAMBDA c : c.bounds.minLat >= 247000 /\ c.bounds.minLat <= 248500)
        southernRisk == SelectSeq(highRiskCells, LAMBDA c : c.bounds.minLat < 247000)
    IN  IF highRiskCells = << >> THEN << >>
        ELSE IF calamityType = CALAMITY_TYPES.LANDSLIDE THEN
            (IF northernRisk # << >>
                THEN << Alert("nh2-north", "NH-2 (Imphal-Senapati Highway)", northernRisk,
                              "Hill road section may experience landslide blockage",
                              "Avoid travel on hill sections. Use alternative valley routes if available.") >>
                ELSE << >>)
            \o
            (IF centralRisk # << >>
                THEN << Alert("imphal-central", "Imphal City Ring Road", centralRisk,
                              "Slope-adjacent road sections at risk",
                              "Monitor conditions. Debris clearance may be required.") >>
                ELSE << >>)
        ELSE IF calamityType = CALAMITY_TYPES.FLOOD THEN
            (IF centralRisk # << >>
                THEN << Alert("imphal-valley", "Imphal Valley Low-lying Roads", centralRisk,
                              "Low-lying areas may experience flooding",
                              "Seek higher elevation. Avoid crossing flooded sections.") >>
                ELSE << >>)
            \o
            (IF southernRisk # << >>
                THEN << Alert("loktak-roads", "Roads near Loktak Lake", southernRisk,
                              "Waterlogging expected in lakeside areas",
                              "Use elevated bypass routes. Monitor water levels.") >>
                ELSE << >>)
        ELSE << >>

\* mutant of getRiskColor: the first comparison is <= instead of <
getRiskColor_Inclusive(riskPercentage) ==
    IF riskPercentage <= 30 THEN "#22c55e"
    ELSE IF riskPercentage < 60 THEN "#f97316"
    ELSE "#ef4444"

\* getRiskColor: '#22c55e' green, '#f97316' orange, '#ef4444' red
getRiskColor(riskPercentage) ==
    IF riskPercentage < 30 THEN "#22c55e"
    ELSE IF riskPercentage < 60 THEN "#f97316"
    ELSE "#ef4444"

getRiskLevel(riskPercentage) ==
    IF riskPercentage < 30 THEN "Low Risk"
    ELSE IF riskPercentage < 60 THEN "Moderate Risk"
    ELSE "High Risk"

\* mutant of stats: the moderate count starts above 30 instead of at 30
stats_ModerateAbove30(cells) ==
    [total |-> Len(cells),
     highRisk |-> Len(SelectSeq(cells, LAMBDA c : c.risk_percentage >= 60)),
     moderateRisk |-> Len(SelectSeq(cells,
                         LAMBDA c : c.risk_percentage > 30 /\ c.risk_percentage < 60)),
     lowRisk |-> Len(SelectSeq(cells, LAMBDA c : c.risk_percentage < 30))]

\* const stats = {...}, computed from filteredCells at every render
stats(cells) ==
    [total |-> Len(cells),
     highRisk |-> Len(SelectSeq(cells, LAMBDA c : c.risk_percentage >= 60)),
     moderateRisk |-> Len(SelectSeq(cells,
                         LAMBDA c : c.risk_percentage >= 30 /\ c.risk_percentage < 60)),
     lowRisk |-> Len(SelectSeq(cells, LAMBDA c : c.risk_percentage < 30))]

----------------------------------------------------------------------------
(* The component's hook state as one record, and the handlers as functions  *)
(* from the state they start in to the state their setState calls leave.    *)

Cur ==
    [selectedCountry |-> selectedCountry, selectedState |-> selectedState,
     selectedDistrict |-> selectedDistrict, riskCells |-> riskCells,
     roadAlerts |-> roadAlerts, calamityMode |-> calamityMode,
     lastUpdated |-> lastUpdated, loading |-> loading, error |-> error,
     mapCenter |-> mapCenter, mapZoom |-> mapZoom,
     selectedRoadAlert |-> selectedRoadAlert]

Commit(s) ==
    /\ selectedCountry' = s.selectedCountry
    /\ selectedState' = s.selectedState
    /\ selectedDistrict' = s.selectedDistrict
    /\ riskCells' = s.riskCells
    /\ roadAlerts' = s.roadAlerts
    /\ calamityMode' = s.calamityMode
    /\ lastUpdated' = s.lastUpdated
    /\ loading' = s.loading
    /\ error' = s.error
    /\ mapCenter' = s.mapCenter
    /\ mapZoom' = s.mapZoom
    /\ selectedRoadAlert' = s.selectedRoadAlert

SetView(s, view) == [s EXCEPT !.mapCenter = view.center, !.mapZoom = view.zoom]

\* const filteredCells = riskCells.filter(...), computed at every render
filteredCells(s) == FilterByMode(s.riskCells, s.calamityMode)

\* mutant of countryEffect: the clearing branch forgets setSelectedState('')
countryEffect_KeepsState(snap, s) ==
    IF snap.selectedCountry = "India" THEN SetView(s, MAP_VIEWS.india)
    ELSE IF snap.selectedCountry = "" THEN
        [SetView(s, MAP_VIEWS.world) EXCEPT
            !.selectedDistrict = << >>, !.riskCells = << >>, !.roadAlerts = << >>]
    ELSE s

\* useEffect(..., [selectedCountry]); snap is the render the effect closes over
countryEffect(snap, s) ==
    IF snap.selectedCountry = "India" THEN SetView(s, MAP_VIEWS.india)
    ELSE IF snap.selectedCountry = "" THEN
        [SetView(s, MAP_VIEWS.world) EXCEPT
            !.selectedState = "", !.selectedDistrict = << >>,
            !.riskCells = << >>, !.roadAlerts = << >>]
    ELSE s

\* mutant of stateEffect: the clearing branch forgets setSelectedDistrict('')
stateEffect_KeepsDistrict(snap, s) ==
    IF snap.selectedState = "Manipur" THEN SetView(s, MAP_VIEWS.manipur)
    ELSE IF snap.selectedState = "" /\ snap.selectedCountry = "India" THEN
        [SetView(s, MAP_VIEWS.india) EXCEPT !.riskCells = << >>, !.roadAlerts = << >>]
    ELSE s

\* mutant of stateEffect: the Manipur branch is missing
stateEffect_NoManipurView(snap, s) ==
    IF snap.selectedState = "" /\ snap.selectedCountry = "India" THEN
        [SetView(s, MAP_VIEWS.india) EXCEPT
            !.selectedDistrict = << >>, !.riskCells = << >>, !.roadAlerts = << >>]
    ELSE s

\* useEffect(..., [selectedState, selectedCountry])
stateEffect(snap, s) ==
    IF snap.selectedState = "Manipur" THEN SetView(s, MAP_VIEWS.manipur)
    ELSE IF snap.selectedState = "" /\ snap.selectedCountry = "India" THEN
        [SetView(s, MAP_VIEWS.india) EXCEPT
            !.selectedDistrict = << >>, !.riskCells = << >>, !.roadAlerts = << >>]
    ELSE s

\* useEffect(..., [filteredCells.length, calamityMode])
alertsEffect(snap, s) ==
    IF Len(filteredCells(snap)) > 0
        THEN [s EXCEPT !.roadAlerts =
                  detectRoadIntersections(filteredCells(snap), snap.calamityMode)]
        ELSE [s EXCEPT !.roadAlerts = << >>]

\* mutant of fetchDisasterData_begin: the call forgets setRiskCells([])
fetchDisasterData_begin_KeepsCells(s) ==
    [s EXCEPT !.loading = TRUE, !.error = NoError, !.roadAlerts = << >>]

\* fetchDisasterData up to its first await
fetchDisasterData_begin(s) ==
    [s EXCEPT !.loading = TRUE, !.error = NoError,
              !.riskCells = << >>, !.roadAlerts = << >>]

\* the try block runs to its end: a 2xx response whose body the transform accepts
Succeeds(outcome) == outcome.kind = "ok" /\ ~BodyThrows(outcome.body)

\* the `catch` block's setError argument
FailureMessage(outcome) ==
    IF outcome.kind = "http" THEN ApiError(outcome.status)
    ELSE IF outcome.kind = "network" THEN TransportError
    ELSE IF outcome.body.shape = "null" THEN NullBodyError
    ELSE NotIterableError

\* property names every object literal inherits from Object.prototype; their
\* values are functions (truthy), with no center and no zoom
ObjectPrototypeKeys ==
    { <<"c","o","n","s","t","r","u","c","t","o","r">>,
      <<"t","o","S","t","r","i","n","g">>,
      <<"v","a","l","u","e","O","f">> }

\* setMapCenter(undefined), setMapZoom(undefined)
UndefinedView == [center |-> << >>, zoom |-> 0 - 1]

\* the test `if (MANIPUR_DISTRICTS[districtParam])`: an own or inherited
\* property with a truthy value
Found(districtParam) ==
    districtParam \in DOMAIN MANIPUR_DISTRICTS \cup ObjectPrototypeKeys

\* MANIPUR_DISTRICTS[districtParam].center and .zoom of a found property
Lookup(districtParam) ==
    IF districtParam \in DOMAIN MANIPUR_DISTRICTS
        THEN MANIPUR_DISTRICTS[districtParam]
        ELSE UndefinedView

\* mutant of fetchDisasterData_resume: setLoading(false) is the last statement
\* of the try block instead of a finally block
fetchDisasterData_resume_NoFinally(s, districtParam, outcome, now) ==
    IF Succeeds(outcome) THEN
        LET transformedCells == ExpandRecords(RawCells(outcome.body))
            s1 == [s EXCEPT !.riskCells = transformedCells, !.lastUpdated = now]
            s2 == IF Found(districtParam)
                     THEN SetView(s1, Lookup(districtParam))
                     ELSE s1
        IN  [s2 EXCEPT !.loading = FALSE]
    ELSE [s EXCEPT !.error = FailureMessage(outcome)]

\* fetchDisasterData from the settling of its request to its end
fetchDisasterData_resume(s, districtParam, outcome, now) ==
    IF Succeeds(outcome) THEN
        LET transformedCells == ExpandRecords(RawCells(outcome.body))
            s1 == [s EXCEPT !.riskCells = transformedCells, !.lastUpdated = now]
            s2 == IF Found(districtParam)
                     THEN SetView(s1, Lookup(districtParam))
                     ELSE s1
        IN  [s2 EXCEPT !.loading = FALSE]
    ELSE [s EXCEPT !.error = FailureMessage(outcome), !.loading = FALSE]

\* mutant of handleDistrictChange: clearing the district also calls setError(null)
handleDistrictChange_ClearsError(s, district) ==
    LET s1 == [s EXCEPT !.selectedDistrict = district]
    IN  IF district # << >> THEN fetchDisasterData_begin(s1)
        ELSE [SetView(s1, MAP_VIEWS.manipur) EXCEPT
                 !.riskCells = << >>, !.roadAlerts = << >>, !.error = NoError]

\* mutant of handleDistrictChange: clearing the district leaves the view alone
handleDistrictChange_KeepsView(s, district) ==
    LET s1 == [s EXCEPT !.selectedDistrict = district]
    IN  IF district # << >> THEN fetchDisasterData_begin(s1)
        ELSE [s1 EXCEPT !.riskCells = << >>, !.roadAlerts = << >>]

handleDistrictChange(s, district) ==
    LET s1 == [s EXCEPT !.selectedDistrict = district]
    IN  IF district # << >> THEN fetchDisasterData_begin(s1)
        ELSE [SetView(s1, MAP_VIEWS.manipur) EXCEPT
                 !.riskCells = << >>, !.roadAlerts = << >>]

\* mutant of handleRoadAlertClick: the view is centred on the south-west corner
\* of the first cell instead of its midpoint
handleRoadAlertClick_Corner(s, alert) ==
    LET s1 == [s EXCEPT !.selectedRoadAlert = alert]
    IN  IF Len(alert.cells) > 0 THEN
            LET cell == alert.cells[1]
            IN  [s1 EXCEPT !.mapCenter = <<cell.bounds.minLat, cell.bounds.minLon>>,
                           !.mapZoom = 12]
        ELSE s1

handleRoadAlertClick(s, alert) ==
    LET s1 == [s EXCEPT !.selectedRoadAlert = alert]
    IN  IF Len(alert.cells) > 0 THEN
            LET cell == alert.cells[1]
                centerLat == (cell.bounds.minLat + cell.bounds.maxLat) \div 2
                centerLon == (cell.bounds.minLon + cell.bounds.maxLon) \div 2
            IN  [s1 EXCEPT !.mapCenter = <<centerLat, centerLon>>, !.mapZoom = 12]
        ELSE s1

----------------------------------------------------------------------------
(* React scheduling *)

CountryDepsOf(s) == s.selectedCountry
StateDepsOf(s) == <<s.selectedState, s.selectedCountry>>
AlertDepsOf(s) == <<Len(filteredCells(s)), s.calamityMode>>

\* a render whose effects have not run yet: some dependency array differs from
\* the one its effect last ran with
EffectsPending ==
    \/ countryDeps # CountryDepsOf(Cur)
    \/ stateDeps # StateDepsOf(Cur)
    \/ alertDeps # AlertDepsOf(Cur)

\* the logical time `new Date()` returns: later than every earlier completion
Now == issued - Cardinality(inflight) + 1

\* type: what happened; prev*: the selection it happened in; district: the
\* district chosen, or the one the settled request was for; stale: the request
\* was for another district than the selected one; sole: no other request was
\* outstanding; status: the HTTP status the request settled with (0: none)
Event(type, district, stale, sole, status) ==
    [type |-> type, prevCountry |-> selectedCountry, prevState |-> selectedState,
     prevDistrict |-> selectedDistrict, district |-> district,
     stale |-> stale, sole |-> sole, status |-> status]

NoFetch == [status |-> "none", cells |-> << >>]

\* no pure function is being called on its own
NoProbe == [fn |-> "none", pc |-> "none"]

----------------------------------------------------------------------------
(* Actions *)

\* the component after its first render and mount effects
Mounted ==
    /\ selectedCountry = ""
    /\ selectedState = ""
    /\ selectedDistrict = << >>
    /\ riskCells = << >>
    /\ roadAlerts = << >>
    /\ calamityMode = CALAMITY_TYPES.LANDSLIDE
    /\ lastUpdated = 0
    /\ loading = FALSE
    /\ error = NoError
    /\ mapCenter = MAP_VIEWS.world.center
    /\ mapZoom = MAP_VIEWS.world.zoom
    /\ selectedRoadAlert = NoAlert
    /\ countryDeps = ""
    /\ stateDeps = <<"", "">>
    /\ alertDeps = <<0, CALAMITY_TYPES.LANDSLIDE>>
    /\ inflight = {}
    /\ issued = 0
    /\ lastEvent = [type |-> "mount", prevCountry |-> "", prevState |-> "",
                    prevDistrict |-> << >>, district |-> << >>,
                    stale |-> FALSE, sole |-> FALSE, status |-> 0]
    /\ latest = NoFetch

Init == Mounted /\ probe = NoProbe

\* One commit: the effects whose dependencies changed run in declaration order,
\* each reading the state of the render it belongs to; their setState calls
\* apply in call order.  React runs the effects of a commit before it handles
\* the next event, so every other action waits for ~EffectsPending.
RunEffects ==
    /\ EffectsPending
    /\ LET snap == Cur
           s1 == IF countryDeps # CountryDepsOf(snap) THEN countryEffect(snap, snap) ELSE snap
           s2 == IF stateDeps # StateDepsOf(snap) THEN stateEffect(snap, s1) ELSE s1
           s3 == IF alertDeps # AlertDepsOf(snap) THEN alertsEffect(snap, s2) ELSE s2
       IN  /\ Commit(s3)
           /\ countryDeps' = CountryDepsOf(snap)
           /\ stateDeps' = StateDepsOf(snap)
           /\ alertDeps' = AlertDepsOf(snap)
    /\ UNCHANGED <<inflight, issued, lastEvent, latest, probe>>

\* <select value={selectedCountry} onChange={e => setSelectedCountry(e.target.value)}>
SelectCountry(value) ==
    /\ ~EffectsPending
    /\ value # selectedCountry
    /\ Commit([Cur EXCEPT !.selectedCountry = value])
    /\ lastEvent' = Event("country", << >>, FALSE, FALSE, 0)
    /\ UNCHANGED <<countryDeps, stateDeps, alertDeps, inflight, issued, latest, probe>>

\* <select value={selectedState} ... disabled={!selectedCountry}>
SelectState(value) ==
    /\ ~EffectsPending
    /\ selectedCountry # ""
    /\ value # selectedState
    /\ Commit([Cur EXCEPT !.selectedState = value])
    /\ lastEvent' = Event("state", << >>, FALSE, FALSE, 0)
    /\ UNCHANGED <<countryDeps, stateDeps, alertDeps, inflight, issued, latest, probe>>

\* <select value={selectedDistrict} onChange={handleDistrictChange}
\*         disabled={!selectedState}>; a non-empty choice issues the GET request
SelectDistrict(district) ==
    /\ ~EffectsPending
    /\ selectedState # ""
    /\ district # selectedDistrict
    /\ district # << >> => issued < MaxFetches
    /\ Commit(handleDistrictChange(Cur, district))
    /\ IF district # << >>
          THEN /\ issued' = issued + 1
               /\ inflight' = inflight \cup
                    { [id |-> issued + 1, district |-> district,
                       area |-> StripWhitespace(district)] }
               /\ latest' = [status |-> "pending", cells |-> << >>]
          ELSE UNCHANGED <<issued, inflight, latest>>
    /\ lastEvent' = Event("district", district, FALSE, FALSE, 0)
    /\ UNCHANGED <<countryDeps, stateDeps, alertDeps, probe>>

\* mutant of SetCalamityMode: the button's onClick also calls setRiskCells([])
SetCalamityMode_ClearsCells(mode) ==
    /\ ~EffectsPending
    /\ selectedDistrict # << >>
    /\ mode # calamityMode
    /\ Commit([Cur EXCEPT !.calamityMode = mode, !.riskCells = << >>])
    /\ lastEvent' = Event("mode", << >>, FALSE, FALSE, 0)
    /\ UNCHANGED <<countryDeps, stateDeps, alertDeps, inflight, issued, latest, probe>>

\* the two mode buttons, rendered while a district is selected
SetCalamityMode(mode) ==
    /\ ~EffectsPending
    /\ selectedDistrict # << >>
    /\ mode # calamityMode
    /\ Commit([Cur EXCEPT !.calamityMode = mode])
    /\ lastEvent' = Event("mode", << >>, FALSE, FALSE, 0)
    /\ UNCHANGED <<countryDeps, stateDeps, alertDeps, inflight, issued, latest, probe>>

\* a click on one entry of the alerts panel, rendered while roadAlerts is non-empty
ClickRoadAlert(i) ==
    /\ ~EffectsPending
    /\ i \in DOMAIN roadAlerts
    /\ Commit(handleRoadAlertClick(Cur, roadAlerts[i]))
    /\ lastEvent' = Event("alertClick", << >>, FALSE, FALSE, 0)
    /\ UNCHANGED <<countryDeps, stateDeps, alertDeps, inflight, issued, latest, probe>>

\* mutant of FetchSettles: the catch block calls fetchDisasterData again, so a
\* failed request is followed by a new one for the same district
FetchSettles_Retry(f, outcome) ==
    /\ ~EffectsPending
    /\ f \in inflight
    /\ LET retry == ~Succeeds(outcome) /\ issued < MaxFetches
           s == fetchDisasterData_resume(Cur, f.area, outcome, Now)
       IN  /\ Commit(IF retry THEN fetchDisasterData_begin(s) ELSE s)
           /\ issued' = IF retry THEN issued + 1 ELSE issued
           /\ inflight' = (inflight \ {f}) \cup
                 (IF retry THEN { [id |-> issued + 1, district |-> f.district,
                                   area |-> f.area] }
                           ELSE { })
    /\ latest' = IF f.id # issued THEN latest
                 ELSE IF Succeeds(outcome)
                    THEN [status |-> "ok", cells |-> ExpandRecords(RawCells(outcome.body))]
                    ELSE [status |-> "failed", cells |-> << >>]
    /\ lastEvent' = Event(IF Succeeds(outcome) THEN "fetchOk"
                          ELSE IF outcome.kind = "ok" THEN "fetchBadBody"
                          ELSE "fetchFailed",
                          f.district, f.district # selectedDistrict, inflight = {f},
                          outcome.status)
    /\ UNCHANGED <<countryDeps, stateDeps, alertDeps, probe>>

\* the request of one suspended fetchDisasterData call settles and the call
\* runs to its end
FetchSettles(f, outcome) ==
    /\ ~EffectsPending
    /\ f \in inflight
    /\ Commit(fetchDisasterData_resume(Cur, f.area, outcome, Now))
    /\ inflight' = inflight \ {f}
    /\ latest' = IF f.id # issued THEN latest
                 ELSE IF Succeeds(outcome)
                    THEN [status |-> "ok", cells |-> ExpandRecords(RawCells(outcome.body))]
                    ELSE [status |-> "failed", cells |-> << >>]
    /\ lastEvent' = Event(IF Succeeds(outcome) THEN "fetchOk"
                          ELSE IF outcome.kind = "ok" THEN "fetchBadBody"
                          ELSE "fetchFailed",
                          f.district, f.district # selectedDistrict, inflight = {f},
                          outcome.status)
    /\ UNCHANGED <<countryDeps, stateDeps, alertDeps, issued, probe>>

Next ==
    \/ RunEffects
    \/ \E value \in {"", "India"} : SelectCountry(value)
    \/ \E value \in {"", "Manipur"} : SelectState(value)
    \/ \E district \in DistrictChoices \cup { << >> } : SelectDistrict(district)
    \/ \E mode \in {CALAMITY_TYPES.LANDSLIDE, CALAMITY_TYPES.FLOOD} : SetCalamityMode(mode)
    \/ \E i \in 1..2 : ClickRoadAlert(i)
    \/ \E f \in inflight, outcome \in Outcomes : FetchSettles(f, outcome)

Spec == Init /\ [][Next]_vars

\* one settling of each kind the try/catch/finally of fetchDisasterData tells
\* apart: a list it stores, a body its transform throws on, a non-2xx status
\* and a rejected promise
Replies ==
    { [kind |-> "ok", status |-> 200,
       body |-> [shape |-> "wrapper",
                 list |-> << [bounds |-> Bounds(247800, 939100, 248300, 939600),
                              flood |-> Absent,
                              landslide |-> SubRecord("landslide", 72)] >>]],
      [kind |-> "ok", status |-> 200, body |-> [shape |-> "object", list |-> << >>]],
      [kind |-> "http", status |-> 500, body |-> NoBody],
      [kind |-> "network", status |-> 0, body |-> NoBody] }

Settling == \E f \in inflight, outcome \in Replies : FetchSettles(f, outcome)

FairNext ==
    \/ RunEffects
    \/ \E value \in {"", "India"} : SelectCountry(value)
    \/ \E value \in {"", "Manipur"} : SelectState(value)
    \/ \E district \in DistrictChoices \cup { << >> } : SelectDistrict(district)
    \/ \E mode \in {CALAMITY_TYPES.LANDSLIDE, CALAMITY_TYPES.FLOOD} : SetCalamityMode(mode)
    \/ \E i \in 1..2 : ClickRoadAlert(i)
    \/ Settling

\* every issued request is eventually answered or fails in transport, and React
\* runs the effects of every commit
FairSpec == Init /\ [][FairNext]_vars /\ SF_vars(Settling) /\ WF_vars(RunEffects)

----------------------------------------------------------------------------
(* The component's functions called on their own: the inputs fetchDisasterData, *)
(* the filter, the classifiers and detectRoadIntersections are defined for,     *)
(* beyond the payloads the modelled endpoint answers with.                      *)

\* JavaScript undefined, where a field of a raw record is missing
Undefined == [undefined |-> TRUE]

\* raw records as JSON.parse can hand them to the transform: the endpoint's
\* records, a record with neither sub-record, landslide:{risk_percentage:72}
\* without its cal_type, a flood sub-record tagged 'landslide', a record
\* without bounds and one whose bounds lacks minLat
PayloadRecords ==
    RawRecords \cup
    { [bounds |-> Bounds(249000, 940000, 249500, 940500),
       flood |-> Absent, landslide |-> Absent],
      [bounds |-> Bounds(247800, 939100, 248300, 939600),
       flood |-> Absent,
       landslide |-> [cal_type |-> "undefined", risk_percentage |-> 72, updated_at |-> 1]],
      [bounds |-> Bounds(247200, 938000, 247700, 938500),
       flood |-> SubRecord("landslide", 64), landslide |-> Absent],
      [bounds |-> Undefined,
       flood |-> Absent, landslide |-> SubRecord("landslide", 55)],
      [bounds |-> [minLon |-> 939100, maxLat |-> 248300, maxLon |-> 939600],
       flood |-> SubRecord("flood", 38), landslide |-> SubRecord("landslide", 41)] }

PayloadLists == SeqsUpTo(PayloadRecords, MaxCells)

\* cell.bounds carries the four numbers the render and the alert synthesis read
HasBounds(cell) == DOMAIN cell.bounds = {"minLat", "minLon", "maxLat", "maxLon"}

\* riskCells values for the filter: the cells of the records with bounds
StoredCells ==
    UNION { { ExpandRecord(r)[i] : i \in DOMAIN ExpandRecord(r) } :
              r \in { x \in PayloadRecords : HasBounds(x) } }

StoredCellLists == SeqsUpTo(StoredCells, MaxCells)

\* cells on both sides of the risk threshold and of the two band latitudes
BandCells ==
    { [bounds |-> Bounds(lat, 939100, lat + 500, 939600), cal_type |-> "landslide",
       risk_percentage |-> risk, updated_at |-> 1] :
          lat \in {246999, 247000, 248500, 248501}, risk \in {29, 30, 72} }

BandCellLists == SeqsUpTo(BandCells, MaxCells)

Percentages == 0 .. 100

\* filtered cells at the ends of 0..100 and on both sides of 30 and 60
GradedCells ==
    { [bounds |-> Bounds(247800, 939100, 248300, 939600), cal_type |-> "flood",
       risk_percentage |-> risk, updated_at |-> 1] : risk \in {0, 29, 30, 59, 60, 100} }

GradedCellLists == SeqsUpTo(GradedCells, MaxCells)

\* district arguments with whitespace in them: the display name, and names
\* with leading, trailing, repeated and tab whitespace
DistrictArguments ==
    { ImphalWest, Bishnupur,
      <<"I","m","p","h","a","l"," ","W","e","s","t">>,
      <<" ","I","m","p","h","a","l"," ","W","e","s","t">>,
      <<"I","m","p","h","a","l"," "," ","W","e","s","t"," ">>,
      <<"I","m","p","h","a","l","\t","E","a","s","t","\n">>,
      <<"N","o"," ","S","u","c","h"," ","P","l","a","c","e">>,
      <<"c","o","n","s","t","r","u","c","t","o","r">>,
      <<"t","o"," ","S","t","r","i","n","g">>,
      <<" ">> }

Call(fn, arg) == [fn |-> fn, pc |-> "call", arg |-> arg]

Return(call, out) == [fn |-> call.fn, pc |-> "done", arg |-> call.arg, out |-> out]

FnInit ==
    /\ Mounted
    /\ \/ \E rawCells \in PayloadLists : probe = Call("transform", rawCells)
       \/ \E cells \in StoredCellLists, mode \in {"landslide", "flood"} :
              probe = Call("filteredCells", [cells |-> cells, mode |-> mode])
       \/ \E cells \in BandCellLists, mode \in {"landslide", "flood"} :
              probe = Call("detectRoadIntersections", [cells |-> cells, mode |-> mode])
       \/ \E p \in Percentages : probe = Call("getRiskColor", p)
       \/ \E p \in Percentages : probe = Call("getRiskLevel", p)
       \/ \E cells \in GradedCellLists : probe = Call("stats", cells)
       \/ \E district \in DistrictArguments : probe = Call("fetchDisasterData", district)

Calling(fn) == probe.fn = fn /\ probe.pc = "call"

\* rawCells.forEach(...) over a payload list
ApplyTransform ==
    /\ Calling("transform")
    /\ probe' = Return(probe, ExpandRecords(probe.arg))
    /\ UNCHANGED component

ApplyFilter ==
    /\ Calling("filteredCells")
    /\ probe' = Return(probe, FilterByMode(probe.arg.cells, probe.arg.mode))
    /\ UNCHANGED component

ApplyDetect ==
    /\ Calling("detectRoadIntersections")
    /\ probe' = Return(probe, detectRoadIntersections(probe.arg.cells, probe.arg.mode))
    /\ UNCHANGED component

ApplyRiskColor ==
    /\ Calling("getRiskColor")
    /\ probe' = Return(probe, getRiskColor(probe.arg))
    /\ UNCHANGED component

ApplyRiskLevel ==
    /\ Calling("getRiskLevel")
    /\ probe' = Return(probe, getRiskLevel(probe.arg))
    /\ UNCHANGED component

ApplyStats ==
    /\ Calling("stats")
    /\ probe' = Return(probe, stats(probe.arg))
    /\ UNCHANGED component

\* fetchDisasterData(district) answered 200 with a list of records: the key
\* placed in the request, the records answered, and the hooks the call leaves
ApplyFetch ==
    /\ Calling("fetchDisasterData")
    /\ \E rawCells \in RecordLists :
        LET districtParam == StripWhitespace(probe.arg)
            answer == [kind |-> "ok", status |-> 200,
                       body |-> [shape |-> "wrapper", list |-> rawCells]]
            s == fetchDisasterData_resume(fetchDisasterData_begin(Cur),
                                          districtParam, answer, 1)
        IN  probe' = Return(probe, [area |-> districtParam, answered |-> rawCells,
                                    mapCenter |-> s.mapCenter, mapZoom |-> s.mapZoom,
                                    error |-> s.error, riskCells |-> s.riskCells])
    /\ UNCHANGED component

FnNext ==
    \/ ApplyTransform
    \/ ApplyFilter
    \/ ApplyDetect
    \/ ApplyRiskColor
    \/ ApplyRiskLevel
    \/ ApplyStats
    \/ ApplyFetch

FnSpec == FnInit /\ [][FnNext]_vars

----------------------------------------------------------------------------
(* Vocabulary of the properties *)

\* every effect of the last commit has run
Quiescent == ~EffectsPending

ViewIs(center, zoom) == mapCenter = center /\ mapZoom = zoom

\* this step is the settling of a request
SettleStep == inflight' # inflight /\ issued' = issued

\* this step is the arrival of the response (successful or not) of a request for
\* district A while another district B is selected
StaleArrival(type) ==
    /\ SettleStep
    /\ selectedDistrict # << >>
    /\ lastEvent'.type = type
    /\ lastEvent'.stale

\* no request is outstanding, the last thing that happened is the arrival of a
\* 2xx response, and the request of the current selection got a 2xx response
SettledOnSuccess ==
    /\ inflight = {}
    /\ selectedDistrict # << >>
    /\ lastEvent.type = "fetchOk"
    /\ latest.status = "ok"

ShowsLatest ==
    /\ riskCells = latest.cells
    /\ ViewIs(MANIPUR_DISTRICTS[StripWhitespace(selectedDistrict)].center,
              MANIPUR_DISTRICTS[StripWhitespace(selectedDistrict)].zoom)

----------------------------------------------------------------------------
(* Properties *)

\* C1: last selection wins.  The arrival of the successful response of a
\* superseded request (district A, while district B is selected) changes neither
\* the displayed risk cells nor the view, and once every request has settled the
\* displayed cells and the view are those of the selected district.
C1_LastSelectionWins ==
    [][ /\ StaleArrival("fetchOk") => UNCHANGED <<riskCells, mapCenter, mapZoom>>
        /\ SettledOnSuccess' => ShowsLatest' ]_vars

\* C2: the failure of a superseded request (district A, while district B is
\* selected) does not set the error field.
C2_StaleFailureDiscarded ==
    [][ StaleArrival("fetchFailed") => error' = error ]_vars

\* C3: once the effects have run, an empty district selection implies empty
\* risk cells and empty road alerts.
C3_NoDistrictNoCells ==
    (Quiescent /\ selectedDistrict = << >>) => (riskCells = << >> /\ roadAlerts = << >>)

\* C4: once the effects have run, the selection is a prefix chain: a state only
\* under a country, a district only under a state.
C4_PrefixChain ==
    Quiescent =>
        /\ selectedState # "" => selectedCountry # ""
        /\ selectedDistrict # << >> => selectedState # ""

\* C4 witness: the country was cleared while a district was selected, and the
\* effects have run.
C4_Witness ==
    /\ Quiescent
    /\ lastEvent.type = "country"
    /\ lastEvent.prevDistrict # << >>
    /\ selectedCountry = ""

\* C5: clearing the country leaves, once the effects have run, the World view
\* (center (20, 0), zoom 2), no state, no district, no cells and no alerts.
C5_ClearCountryResetsToWorld ==
    (Quiescent /\ lastEvent.type = "country" /\ selectedCountry = "") =>
        /\ ViewIs(<<200000, 0>>, 2)
        /\ selectedState = ""
        /\ selectedDistrict = << >>
        /\ riskCells = << >>
        /\ roadAlerts = << >>

\* C6: clearing the state while the country is India leaves, once the effects
\* have run, the India view (center (22.5, 79), zoom 5), no district, no cells,
\* no alerts, and the country unchanged.
C6_ClearStateResetsToCountry ==
    (Quiescent /\ lastEvent.type = "state" /\ lastEvent.prevCountry = "India"
        /\ selectedState = "") =>
        /\ ViewIs(<<225000, 790000>>, 5)
        /\ selectedDistrict = << >>
        /\ riskCells = << >>
        /\ roadAlerts = << >>
        /\ selectedCountry = "India"

\* C6 witness: the state was cleared while a district was selected and its
\* request was still outstanding, and the effects have run.
C6_Witness ==
    /\ Quiescent
    /\ lastEvent.type = "state"
    /\ lastEvent.prevCountry = "India"
    /\ lastEvent.prevDistrict # << >>
    /\ selectedState = ""
    /\ inflight # {}

\* C7: clearing the district sets the view to Manipur (center (24.8, 93.95),
\* zoom 9), empties cells and alerts, and leaves country and state as they were,
\* both right after the handler and after the effects it triggers.
C7_ClearDistrictResetsToState ==
    (lastEvent.type = "district" /\ lastEvent.district = << >>) =>
        /\ ViewIs(<<248000, 939500>>, 9)
        /\ riskCells = << >>
        /\ roadAlerts = << >>
        /\ selectedDistrict = << >>
        /\ selectedCountry = lastEvent.prevCountry
        /\ selectedState = lastEvent.prevState

\* C7 witness: the district was cleared after a response had been displayed
\* (lastUpdated is set), and the effects have run.
C7_Witness ==
    /\ Quiescent
    /\ lastEvent.type = "district"
    /\ lastEvent.district = << >>
    /\ lastEvent.prevDistrict # << >>
    /\ lastUpdated # 0

\* C8: once the effects have run, selecting country India leaves the view at
\* center (22.5, 79), zoom 5, and then selecting state Manipur leaves it at
\* center (24.8, 93.95), zoom 9.
C8_ForwardNavigation ==
    /\ (Quiescent /\ lastEvent.type = "country" /\ selectedCountry = "India")
          => ViewIs(<<225000, 790000>>, 5)
    /\ (Quiescent /\ lastEvent.type = "state" /\ selectedState = "Manipur")
          => (selectedCountry = "India" /\ ViewIs(<<248000, 939500>>, 9))

\* C8 witness: Manipur was selected under India, and the effects have run.
C8_Witness ==
    /\ Quiescent
    /\ lastEvent.type = "state"
    /\ lastEvent.prevCountry = "India"
    /\ selectedState = "Manipur"

\* C9: selecting a catalogued district moves the view to the district's region
\* without waiting for the request: the view is there as soon as the selection's
\* effects have run, and still there when the request has failed.
C9_DistrictViewIndependentOfFetch ==
    (/\ Quiescent
     /\ selectedDistrict # << >>
     /\ \/ lastEvent.type = "district"
        \/ lastEvent.type = "fetchFailed" /\ ~lastEvent.stale) =>
        ViewIs(MANIPUR_DISTRICTS[StripWhitespace(selectedDistrict)].center,
               MANIPUR_DISTRICTS[StripWhitespace(selectedDistrict)].zoom)

\* C10: when the only outstanding request settles with a non-2xx status, the
\* state has an error message carrying that status, no cells, no alerts and
\* loading = false.
C10_HttpErrorState ==
    (Quiescent /\ lastEvent.type = "fetchFailed" /\ lastEvent.sole
        /\ lastEvent.status # 0) =>
        /\ error # NoError
        /\ error.status = lastEvent.status
        /\ riskCells = << >>
        /\ roadAlerts = << >>
        /\ loading = FALSE

\* C11: a 2xx response whose JSON body is neither the wrapper object nor a bare
\* list (an object without a status field, or null) leaves error null and the
\* risk cells empty.
C11_NonListBodyDegrades ==
    lastEvent.type = "fetchBadBody" => (error = NoError /\ riskCells = << >>)

\* C12: a raw record whose bounds is absent or incomplete is dropped by the
\* transform: no stored cell comes from such a record, and the stored cells
\* are exactly the cells of the well-formed records.
C12_MalformedRecordsDropped ==
    (probe.fn = "transform" /\ probe.pc = "done") =>
        /\ \A i \in DOMAIN probe.out : HasBounds(probe.out[i])
        /\ probe.out = ExpandRecords(SelectSeq(probe.arg, HasBounds))

\* the present sub-records of a payload list, as (record index, key) pairs
Present(rawCells, key) ==
    { i \in DOMAIN rawCells : rawCells[i][key] # Absent }

\* the present sub-records whose own cal_type field reads tag
Tagged(rawCells, key, tag) ==
    { i \in Present(rawCells, key) : rawCells[i][key].cal_type = tag }

Visible(cells, mode) == Len(FilterByMode(cells, mode))

TransformDone == probe.fn = "transform" /\ probe.pc = "done"

Before(rawCells, i) ==
    Cardinality({ j \in Present(rawCells, "flood") : j < i })
        + Cardinality({ j \in Present(rawCells, "landslide") : j < i })

\* C14: the transform stores one cell per present flood sub-record plus one per
\* present landslide sub-record; a record with neither contributes none, a
\* record with both contributes two adjacent cells with the record's bounds
\* (flood first), and the cells of a record sit after those of every earlier
\* record.
C14_ExpansionCount ==
    TransformDone =>
        LET rawCells == probe.arg
            out == probe.out
        IN  /\ Len(out) = Cardinality(Present(rawCells, "flood"))
                            + Cardinality(Present(rawCells, "landslide"))
            /\ \A i \in DOMAIN rawCells :
                   LET at == Before(rawCells, i)
                       hasFlood == i \in Present(rawCells, "flood")
                       hasLandslide == i \in Present(rawCells, "landslide")
                   IN  /\ hasFlood =>
                           /\ out[at + 1].bounds = rawCells[i].bounds
                           /\ out[at + 1].risk_percentage = rawCells[i].flood.risk_percentage
                       /\ hasLandslide =>
                           LET k == IF hasFlood THEN at + 2 ELSE at + 1
                           IN  /\ out[k].bounds = rawCells[i].bounds
                               /\ out[k].risk_percentage
                                      = rawCells[i].landslide.risk_percentage
                       /\ (hasFlood /\ hasLandslide) =>
                           out[at + 1].bounds = out[at + 2].bounds

\* a two-record payload was expanded: a record with neither sub-record, then a
\* record with both, giving two cells
C14_Witness ==
    /\ TransformDone
    /\ Len(probe.arg) = 2
    /\ Present(probe.arg, "flood") = {2}
    /\ Present(probe.arg, "landslide") = {2}
    /\ Len(probe.out) = 2
    /\ HasBounds(probe.out[1])

\* C15: whenever every pending effect has run, roadAlerts is the synthesis of
\* the displayed cells: detectRoadIntersections of the filtered cells and the
\* current hazard mode.
C15_AlertsMatchDisplay ==
    Quiescent => roadAlerts = detectRoadIntersections(filteredCells(Cur), calamityMode)

\* a step in which the user picks a district other than the placeholder
DistrictChosen == selectedDistrict' # << >> /\ selectedDistrict' # selectedDistrict

\* C16: every step that selects a non-empty district issues exactly one GET
\* request, for that district, and no other step (a failed fetch included)
\* issues any; so the requests issued are as many as the non-empty selections.
C16_OneFetchPerSelection ==
    [][ IF DistrictChosen
           THEN /\ issued' = issued + 1
                /\ \E f \in inflight' :
                       /\ f \notin inflight
                       /\ f.id = issued'
                       /\ f.district = selectedDistrict'
                       /\ inflight' = inflight \cup {f}
           ELSE /\ issued' = issued
                /\ inflight' \subseteq inflight ]_vars

\* the only request issued has failed, nothing is in flight and no second
\* request was issued
C16_Witness ==
    /\ lastEvent.type = "fetchFailed"
    /\ error # NoError
    /\ issued = 1
    /\ inflight = { }
    /\ selectedDistrict # << >>

FetchDone == probe.fn = "fetchDisasterData" /\ probe.pc = "done"

\* district is key with whitespace characters inserted into it
NamesDistrict(district, key) ==
    /\ \E i \in DOMAIN district : district[i] \in Whitespace
    /\ Len(key) = Cardinality({ i \in DOMAIN district : district[i] \notin Whitespace })
    /\ \A i \in DOMAIN district :
           district[i] \notin Whitespace =>
               district[i] = key[Cardinality({ j \in 1..i : district[j] \notin Whitespace })]

FilterDone == probe.fn = "filteredCells" /\ probe.pc = "done"

\* C18: the filter returns the cells whose cal_type equals the mode, each once
\* and in the order they have in the stored sequence: the k-th cell of the
\* result is the k-th matching cell of the input.
C18_FilterExact ==
    FilterDone =>
        LET cells == probe.arg.cells
            matching == { i \in DOMAIN cells : cells[i].cal_type = probe.arg.mode }
        IN  /\ Len(probe.out) = Cardinality(matching)
            /\ \A i \in matching :
                   probe.out[Cardinality({ j \in matching : j <= i })] = cells[i]

\* a two-cell sequence was filtered in Flood mode: the landslide cell in front
\* is left out and the flood cell behind it is the result
C18_Witness ==
    /\ FilterDone
    /\ probe.arg.mode = "flood"
    /\ Len(probe.arg.cells) = 2
    /\ probe.arg.cells[1].cal_type = "landslide"
    /\ probe.arg.cells[2].cal_type = "flood"
    /\ probe.out = << probe.arg.cells[2] >>

ColorDone == probe.fn = "getRiskColor" /\ probe.pc = "done"

LevelDone == probe.fn = "getRiskLevel" /\ probe.pc = "done"

\* C19: for every p in 0..100 the colour is green iff p < 30, orange iff
\* 30 <= p < 60 and red iff p >= 60, and the level is Low, Moderate or High on
\* the same three ranges; every p gets exactly one of the three.
C19_RiskClassification ==
    /\ ColorDone =>
          /\ probe.out \in {"#22c55e", "#f97316", "#ef4444"}
          /\ probe.out = "#22c55e" <=> probe.arg < 30
          /\ probe.out = "#f97316" <=> (30 <= probe.arg /\ probe.arg < 60)
          /\ probe.out = "#ef4444" <=> probe.arg >= 60
    /\ LevelDone =>
          /\ probe.out \in {"Low Risk", "Moderate Risk", "High Risk"}
          /\ probe.out = "Low Risk" <=> probe.arg < 30
          /\ probe.out = "Moderate Risk" <=> (30 <= probe.arg /\ probe.arg < 60)
          /\ probe.out = "High Risk" <=> probe.arg >= 60

\* getRiskColor(30) has returned orange: the lower boundary of Moderate
C19_Witness == ColorDone /\ probe.arg = 30 /\ probe.out = "#f97316"

DetectDone == probe.fn = "detectRoadIntersections" /\ probe.pc = "done"

\* some cell at or above the 30 % threshold has its minLat in the band
BandOccupied(cells, InBand(_)) ==
    \E i \in DOMAIN cells :
        cells[i].risk_percentage >= 30 /\ InBand(cells[i].bounds.minLat)

North(minLat) == minLat > 248500

Central(minLat) == 247000 <= minLat /\ minLat <= 248500

South(minLat) == minLat < 247000

IfThen(condition, id) == IF condition THEN << id >> ELSE << >>

\* C20: the alerts are, in Landslide mode, NH-2 iff the north band is occupied
\* followed by the ring road iff the central band is; in Flood mode, the
\* low-lying roads iff the central band is occupied followed by the lakeside
\* roads iff the south band is; nothing else, in that order whatever the
\* severities.
C20_AlertSynthesis ==
    DetectDone =>
        LET cells == probe.arg.cells
            ids == [i \in DOMAIN probe.out |-> probe.out[i].id]
        IN  ids = IF probe.arg.mode = "landslide"
                     THEN IfThen(BandOccupied(cells, North), "nh2-north")
                            \o IfThen(BandOccupied(cells, Central), "imphal-central")
                     ELSE IfThen(BandOccupied(cells, Central), "imphal-valley")
                            \o IfThen(BandOccupied(cells, South), "loktak-roads")

\* Landslide mode, a 72 % cell exactly at 24.85 and a 30 % cell just north of
\* it: the NH-2 alert (severity 30) comes before the ring-road alert (72)
C20_Witness ==
    /\ DetectDone
    /\ probe.arg.mode = "landslide"
    /\ Len(probe.arg.cells) = 2
    /\ probe.arg.cells[1].bounds.minLat = 248500
    /\ probe.arg.cells[1].risk_percentage = 72
    /\ probe.arg.cells[2].bounds.minLat = 248501
    /\ probe.arg.cells[2].risk_percentage = 30
    /\ Len(probe.out) = 2
    /\ probe.out[1].id = "nh2-north" /\ probe.out[1].severity = 30
    /\ probe.out[2].id = "imphal-central" /\ probe.out[2].severity = 72

\* the positions of the cells at or above 30 % whose minLat lies in the band
\* an alert id stands for
BandOf(cells, id) ==
    { i \in DOMAIN cells :
        /\ cells[i].risk_percentage >= 30
        /\ IF id = "nh2-north" THEN North(cells[i].bounds.minLat)
           ELSE IF id \in {"imphal-central", "imphal-valley"}
                THEN Central(cells[i].bounds.minLat)
           ELSE South(cells[i].bounds.minLat) }

\* C21: every alert's cells are non-empty and are exactly the cells of its band
\* at or above 30 %, in input order, and its severity is the largest
\* risk_percentage among them (so at least 30).
C21_AlertCellsAndSeverity ==
    DetectDone =>
        \A a \in DOMAIN probe.out :
            LET alert == probe.out[a]
                cells == probe.arg.cells
                band == BandOf(cells, alert.id)
            IN  /\ alert.cells # << >>
                /\ Len(alert.cells) = Cardinality(band)
                /\ \A i \in band :
                       alert.cells[Cardinality({ j \in band : j <= i })] = cells[i]
                /\ \E i \in band : alert.severity = cells[i].risk_percentage
                /\ \A i \in band : alert.severity >= cells[i].risk_percentage
                /\ alert.severity >= 30

\* Flood mode, a 30 % cell and then a 72 % cell in the central band: one alert
\* holding both cells in that order, severity 72
C21_Witness ==
    /\ DetectDone
    /\ probe.arg.mode = "flood"
    /\ Len(probe.arg.cells) = 2
    /\ probe.arg.cells[1].risk_percentage = 30
    /\ probe.arg.cells[2].risk_percentage = 72
    /\ Len(probe.out) = 1
    /\ probe.out[1].id = "imphal-valley"
    /\ probe.out[1].cells = probe.arg.cells
    /\ probe.out[1].severity = 72

\* the bands a mode has an alert for
Relevant(mode, minLat) ==
    IF mode = "landslide" THEN North(minLat) \/ Central(minLat)
    ELSE Central(minLat) \/ South(minLat)

\* C22: with no cell, or with every cell below 30 %, the synthesis returns no
\* alert in either mode; a cell at exactly 30 % in a band the mode has an alert
\* for is kept: it is among the cells of a returned alert.
C22_SynthesisThreshold ==
    DetectDone =>
        LET cells == probe.arg.cells
        IN  /\ (\A i \in DOMAIN cells : cells[i].risk_percentage < 30) => probe.out = << >>
            /\ \A i \in DOMAIN cells :
                   (cells[i].risk_percentage = 30
                        /\ Relevant(probe.arg.mode, cells[i].bounds.minLat)) =>
                       \E a \in DOMAIN probe.out :
                           \E k \in DOMAIN probe.out[a].cells :
                               probe.out[a].cells[k] = cells[i]

\* two cells at 29 % were given to the synthesis in Flood mode, one of them in
\* the central band: no alert
C22_Witness ==
    /\ DetectDone
    /\ probe.arg.mode = "flood"
    /\ Len(probe.arg.cells) = 2
    /\ \A i \in DOMAIN probe.arg.cells : probe.arg.cells[i].risk_percentage = 29
    /\ Central(probe.arg.cells[1].bounds.minLat)
    /\ probe.out = << >>

\* the centre is the midpoint of the cell's bounds
MidpointOf(center, cell) ==
    /\ 2 * center[1] = cell.bounds.minLat + cell.bounds.maxLat
    /\ 2 * center[2] = cell.bounds.minLon + cell.bounds.maxLon

\* C23: a click on a road alert centres the view on the midpoint of the
\* alert's first cell at zoom 12 and leaves the three selections, the stored
\* cells, the alerts and the hazard mode as they were, and issues no request.
C23_FocusAlert ==
    [][ \A i \in DOMAIN roadAlerts :
            ClickRoadAlert(i) =>
                /\ roadAlerts[i].cells # << >>
                /\ MidpointOf(mapCenter', roadAlerts[i].cells[1])
                /\ mapZoom' = 12
                /\ UNCHANGED <<selectedCountry, selectedState, selectedDistrict,
                               riskCells, roadAlerts, calamityMode, issued, inflight>> ]_vars

\* an alert has just been clicked: the view is at zoom 12 on the midpoint of
\* its first cell, with the district still selected and the alerts still shown
C23_Witness ==
    /\ lastEvent.type = "alertClick"
    /\ selectedRoadAlert # NoAlert
    /\ MidpointOf(mapCenter, selectedRoadAlert.cells[1])
    /\ mapZoom = 12
    /\ selectedDistrict # << >>
    /\ roadAlerts # << >>

StatsDone == probe.fn = "stats" /\ probe.pc = "done"

\* C24: total is the number of filtered cells, high the number with p >= 60,
\* moderate the number with 30 <= p < 60, low the number with p < 30, and
\* total = high + moderate + low.
C24_AggregateCounts ==
    StatsDone =>
        LET cells == probe.arg
            Count(lo, hi) ==
                Cardinality({ i \in DOMAIN cells :
                                 lo <= cells[i].risk_percentage
                                     /\ cells[i].risk_percentage <= hi })
        IN  /\ probe.out.total = Cardinality(DOMAIN cells)
            /\ probe.out.highRisk = Count(60, 100)
            /\ probe.out.moderateRisk = Count(30, 59)
            /\ probe.out.lowRisk = Count(0, 29)
            /\ probe.out.total
                  = probe.out.highRisk + probe.out.moderateRisk + probe.out.lowRisk

\* the counts of a 30 % cell and a 60 % cell: one moderate, one high, none low
C24_Witness ==
    /\ StatsDone
    /\ Len(probe.arg) = 2
    /\ probe.arg[1].risk_percentage = 30
    /\ probe.arg[2].risk_percentage = 60
    /\ probe.out = [total |-> 2, highRisk |-> 1, moderateRisk |-> 1, lowRisk |-> 0]

C26_SelectionClearsDisplay ==
    (lastEvent.type = "district" /\ lastEvent.district # << >>) =>
        /\ selectedDistrict = lastEvent.district
        /\ loading
        /\ error = NoError
        /\ riskCells = << >>
        /\ roadAlerts = << >>

\* a second district was selected after the first one's cells had been stored
\* (lastUpdated was set) and its effects have run: the new fetch is the only
\* one outstanding and nothing is displayed
C26_Witness ==
    /\ lastEvent.type = "district"
    /\ lastEvent.district # << >>
    /\ lastEvent.prevDistrict # << >>
    /\ lastUpdated > 0
    /\ issued = 2
    /\ \E f \in inflight : inflight = {f} /\ f.id = 2 /\ f.district = selectedDistrict
    /\ Quiescent
    /\ riskCells = << >>
    /\ loading

\* the request of the latest selection, for the district now selected, has not
\* settled yet
CurrentFetchOutstanding ==
    \E f \in inflight : f.id = issued /\ f.district = selectedDistrict

\* C27: loading is true in every state in which the fetch for the currently
\* selected district is still outstanding.
C27_LoadingTracksCurrentFetch == CurrentFetchOutstanding => loading

\* C28: under FairSpec every outstanding fetch settles, after which no fetch is
\* outstanding and loading is false; and a settling call does exactly one of
\* two things: it stores its transformed cells and a new lastUpdated and leaves
\* error alone, or it sets a non-null error and leaves the stored cells,
\* lastUpdated and the view as they were.
C28_EveryFetchSettles ==
    /\ (inflight # { }) ~> (inflight = { } /\ ~loading)
    /\ [][ \A f \in inflight, outcome \in Replies :
               FetchSettles(f, outcome) =>
                   /\ inflight' = inflight \ {f}
                   /\ ~loading'
                   /\ IF Succeeds(outcome)
                         THEN /\ riskCells' = ExpandRecords(RawCells(outcome.body))
                              /\ lastUpdated' > lastUpdated
                              /\ error' = error
                         ELSE /\ error' # NoError
                              /\ riskCells' = riskCells
                              /\ lastUpdated' = lastUpdated
                              /\ mapCenter' = mapCenter
                              /\ mapZoom' = mapZoom ]_vars

\* two requests were issued, the last one to settle failed: nothing is
\* outstanding, loading is false and the error is shown
C28_Witness ==
    /\ issued = 2
    /\ inflight = { }
    /\ ~loading
    /\ lastEvent.type = "fetchFailed"
    /\ error # NoError

\* a step that toggles the hazard mode, or that runs the effects of that toggle
ModeStep ==
    \/ calamityMode' # calamityMode
    \/ lastEvent.type = "mode" /\ EffectsPending

\* C29: toggling the hazard mode, and the effects it triggers, leave the three
\* selections, the stored cells, the view, loading and error unchanged and
\* issue no request.
C29_ModeToggleFrame ==
    [][ ModeStep =>
            UNCHANGED <<selectedCountry, selectedState, selectedDistrict, riskCells,
                        mapCenter, mapZoom, loading, error, issued, inflight>> ]_vars

\* the mode was toggled to Flood over two stored cells and the effects have
\* run: both cells are still stored, one is displayed and it has an alert
C29_Witness ==
    /\ lastEvent.type = "mode"
    /\ calamityMode = "flood"
    /\ Quiescent
    /\ Len(riskCells) = 2
    /\ Len(filteredCells(Cur)) = 1
    /\ roadAlerts # << >>

\* C30: a non-empty district selection resets error to null; a step that is
\* neither such a selection nor the settling of a request (clearing the
\* district, state or country, toggling the mode, clicking an alert, running
\* effects) leaves error as it is; so a non-null error becomes null only when a
\* new fetch starts.
C30_ErrorClearedOnlyByFetch ==
    [][ /\ DistrictChosen => error' = NoError
        /\ (~DistrictChosen /\ inflight' = inflight) => error' = error
        /\ (error # NoError /\ error' = NoError) => (DistrictChosen /\ issued' = issued + 1)
      ]_vars

\* a fetch failed, then district, state and country were cleared and every
\* effect has run: the error is still there
C30_Witness ==
    /\ error # NoError
    /\ lastEvent.type = "country"
    /\ selectedCountry = ""
    /\ selectedState = ""
    /\ selectedDistrict = << >>
    /\ inflight = { }
    /\ Quiescent

====
